---- MODULE Spec2Model ----
(***************************************************************************)
(* Model of simple.py (Simple Image Pipeline): the grid addressing         *)
(* function index_to_location, the batch rule engine apply_rules and the   *)
(* orchestrator main with parse_options and build_dict_for_csv.            *)
(***************************************************************************)
EXTENDS Integers, Sequences, FiniteSets, TLC

(***************************************************************************)
(* Bounds of the model.                                                    *)
(***************************************************************************)
MaxIndex == 12
MaxWidth == 6
MaxGrid == 3
MaxCandidates == 3
MaxCalls == 2

(***************************************************************************)
(* Python helpers: floor division, str(int), int(str), str.split.          *)
(* A string is a sequence of one-character strings.                        *)
(***************************************************************************)
PyFloorDiv(a, b) == IF b > 0 THEN a \div b ELSE (0 - a) \div (0 - b)

PyMod(a, b) == a - b * PyFloorDiv(a, b)

DigitChars == <<"0", "1", "2", "3", "4", "5", "6", "7", "8", "9">>

IsDigit(c) == \E d \in 1..10 : DigitChars[d] = c

DigitVal(c) == (CHOOSE d \in 1..10 : DigitChars[d] = c) - 1

RECURSIVE PyStr(_)
PyStr(n) == IF n < 10 THEN <<DigitChars[n + 1]>>
            ELSE PyStr(n \div 10) \o <<DigitChars[(n % 10) + 1]>>

RECURSIVE DigitsValue(_)
DigitsValue(s) == IF s = <<>> THEN 0
                  ELSE 10 * DigitsValue(SubSeq(s, 1, Len(s) - 1)) + DigitVal(s[Len(s)])

AllDigits(s) == s # <<>> /\ \A k \in 1..Len(s) : IsDigit(s[k])

\* int(s): an optional sign followed by decimal digits, ValueError otherwise
PyInt(s) ==
    IF AllDigits(s) THEN [ok |-> TRUE, value |-> DigitsValue(s)]
    ELSE IF s # <<>> /\ s[1] = "+" /\ AllDigits(Tail(s))
         THEN [ok |-> TRUE, value |-> DigitsValue(Tail(s))]
    ELSE IF s # <<>> /\ s[1] = "-" /\ AllDigits(Tail(s))
         THEN [ok |-> TRUE, value |-> 0 - DigitsValue(Tail(s))]
    ELSE [ok |-> FALSE, error |-> "ValueError"]

\* s.split(sep): the pieces of s between occurrences of the character sep
RECURSIVE PySplit(_, _)
PySplit(s, sep) ==
    IF \A k \in 1..Len(s) : s[k] # sep THEN <<s>>
    ELSE LET p == CHOOSE k \in 1..Len(s) : s[k] = sep /\ \A m \in 1..(k - 1) : s[m] # sep
         IN  <<SubSeq(s, 1, p - 1)>> \o PySplit(SubSeq(s, p + 1, Len(s)), sep)

(***************************************************************************)
(* Tile files are named tile_<index>.png by the slicing collaborator.      *)
(***************************************************************************)
TileName(idx) == <<"t", "i", "l", "e", "_">> \o PyStr(idx) \o <<".", "p", "n", "g">>

\* files that do not follow the tile pattern
StrayNames == { <<"m", "a", "s", "k", ".", "p", "n", "g">>,
                <<"t", "i", "l", "e", "_", "x", ".", "p", "n", "g">> }

(***************************************************************************)
(* index_to_location(filename, width, grid_size)                           *)
(***************************************************************************)
index_to_location_ceil(filename, width, grid_size) ==
    IF grid_size = 0 THEN [ok |-> FALSE, error |-> "ZeroDivisionError"]
    ELSE
    LET per_row == PyFloorDiv(width + grid_size - 1, grid_size)
        pieces  == PySplit(filename, "_")
    IN  IF Len(pieces) < 2 THEN [ok |-> FALSE, error |-> "IndexError"]
        ELSE
        LET idx == PyInt(PySplit(pieces[2], ".")[1])
        IN  IF ~idx.ok THEN [ok |-> FALSE, error |-> "ValueError"]
            ELSE IF per_row = 0 THEN [ok |-> FALSE, error |-> "ZeroDivisionError"]
            ELSE [ok |-> TRUE,
                  row |-> PyFloorDiv(idx.value, per_row),
                  col |-> PyMod(idx.value, per_row)]

index_to_location(filename, width, grid_size) ==
    IF grid_size = 0 THEN [ok |-> FALSE, error |-> "ZeroDivisionError"]
    ELSE
    LET per_row == PyFloorDiv(width, grid_size) + 1
        pieces  == PySplit(filename, "_")
    IN  IF Len(pieces) < 2 THEN [ok |-> FALSE, error |-> "IndexError"]
        ELSE
        LET idx == PyInt(PySplit(pieces[2], ".")[1])
        IN  IF ~idx.ok THEN [ok |-> FALSE, error |-> "ValueError"]
            ELSE IF per_row = 0 THEN [ok |-> FALSE, error |-> "ZeroDivisionError"]
            ELSE [ok |-> TRUE,
                  row |-> PyFloorDiv(idx.value, per_row),
                  col |-> PyMod(idx.value, per_row)]

VARIABLES
    \* index_to_location call
    arg_filename, arg_width, arg_grid_size, arg_index, location, lpc,
    \* apply_rules calls sharing one rejects accumulator
    candidates, rules, subdirectory, rejects, accum, ci, rj, done, statistics,
    apc, result, ncalls, log,
    \* history of the current apply_rules call
    candidates_in, rejects_in, seen, evaluated, expected,
    \* main: configuration, filesystem, collaborator calls, position
    config, scratch, scene_files, calls, retained_tiles, accepts, ti,
    manifest, accepted_area, failed, mpc

locVars == <<arg_filename, arg_width, arg_grid_size, arg_index, location, lpc>>

ruleVars == <<candidates, rules, subdirectory, accum, ci, rj, done,
              statistics, apc, result, ncalls,
              candidates_in, rejects_in, seen, evaluated, expected>>

\* the rejects list and the logger output, used by apply_rules and by main
sharedVars == <<rejects, log>>

mainVars == <<config, scratch, scene_files, calls, retained_tiles, accepts, ti,
              manifest, accepted_area, failed, mpc>>

vars == <<locVars, ruleVars, sharedVars, mainVars>>

None == "None"

\* the variables of a part of the program that a specification does not run
LocIdle ==
    /\ arg_filename = <<>> /\ arg_width = 0 /\ arg_grid_size = 0
    /\ arg_index = 0 /\ location = None /\ lpc = "idle"

RuleIdle ==
    /\ candidates = <<>> /\ rules = <<>> /\ subdirectory = None
    /\ accum = <<>> /\ ci = 0 /\ rj = 0 /\ done = FALSE
    /\ statistics = None /\ apc = "off" /\ result = None /\ ncalls = 0
    /\ candidates_in = <<>> /\ rejects_in = <<>> /\ seen = <<>>
    /\ evaluated = <<>> /\ expected = <<>>

MainIdle ==
    /\ config = None /\ scratch = FALSE /\ scene_files = <<>> /\ calls = <<>>
    /\ retained_tiles = <<>> /\ accepts = <<>> /\ ti = 0 /\ manifest = <<>>
    /\ accepted_area = <<>> /\ failed = None /\ mpc = "off"

\* inputs of index_to_location: tile indexes, scene widths and grid sizes
Indexes == 0..MaxIndex

Widths == (0..MaxWidth) \cup {5490}

GridSizes == ((0 - 1)..MaxGrid) \cup {1000}

LocInit ==
    /\ \E i \in Indexes \cup {0 - 1} :
          /\ arg_index = i
          /\ arg_filename \in (IF i >= 0 THEN {TileName(i)} ELSE StrayNames)
    /\ arg_width \in Widths
    /\ arg_grid_size \in GridSizes
    /\ location = None
    /\ lpc = "call"
    /\ RuleIdle /\ MainIdle
    /\ rejects = <<>> /\ log = <<>>

\* one call of index_to_location on the drawn arguments
IndexToLocation ==
    /\ lpc = "call"
    /\ location' = index_to_location(arg_filename, arg_width, arg_grid_size)
    /\ lpc' = "returned"
    /\ UNCHANGED <<arg_filename, arg_width, arg_grid_size, arg_index>>
    /\ UNCHANGED <<ruleVars, sharedVars, mainVars>>

LocNext == IndexToLocation

SpecLoc == LocInit /\ [][LocNext]_vars

\* C3: for a non-negative index, non-negative width and grid_size > 0 the
\* call returns (row, column) with row * tiles_per_row + column = index and
\* 0 <= column < tiles_per_row, where tiles_per_row = width // grid_size + 1;
\* width 5490, grid_size 1000, index 7 gives row 1, column 1.
C3_LocationRoundTrip ==
    (lpc = "returned" /\ arg_index >= 0 /\ arg_width >= 0 /\ arg_grid_size > 0) =>
        /\ location.ok
        /\ location.row * ((arg_width \div arg_grid_size) + 1) + location.col = arg_index
        /\ 0 <= location.col
        /\ location.col < (arg_width \div arg_grid_size) + 1
        /\ location.row >= 0
        /\ (arg_width = 5490 /\ arg_grid_size = 1000 /\ arg_index = 7) =>
               (location.row = 1 /\ location.col = 1)

C3_Witness ==
    /\ lpc = "returned"
    /\ arg_width = 5490 /\ arg_grid_size = 1000 /\ arg_index = 7
    /\ location = [ok |-> TRUE, row |-> 1, col |-> 1]

(***************************************************************************)
(* apply_rules(candidates, rejects, subdirectory, rules)                   *)
(***************************************************************************)
\* statistics tuples (land, cloud) the image collaborator may return
StatTuples == { <<5, 20>>, <<5, 80>>, <<50, 80>> }

\* rule predicates over a statistics tuple
land_rule == [name |-> "land_rule", field |-> 1, threshold |-> 10]

cloud_rule == [name |-> "cloud_rule", field |-> 2, threshold |-> 70]

RuleSet == {land_rule, cloud_rule}

\* rule(*statistics)
RuleHolds(rule, stats) == stats[rule.field] <= rule.threshold

SeqsUpTo(S, n) == UNION { [1..m -> S] : m \in 0..n }

\* tiles tile_0 .. tile_(n-1) written by prepare_tiles
TileFiles(n) == [k \in 1..n |-> TileName(k - 1)]

\* the elements of s at the positions of P, in the order of s
RECURSIVE Pick(_, _)
Pick(s, P) ==
    IF s = <<>> THEN <<>>
    ELSE Pick(SubSeq(s, 1, Len(s) - 1), P) \o
         (IF Len(s) \in P THEN <<s[Len(s)]>> ELSE <<>>)

\* candidate lists: the sub-lists of a directory listing, a list that
\* repeats a file and a list out of listing order
CandidateLists ==
    { Pick(TileFiles(MaxCandidates), P) : P \in SUBSET (1..MaxCandidates) }
    \cup { <<TileName(0), TileName(0)>>, <<TileName(1), TileName(0)>> }

\* rule lists: every ordering of every subset of the rule set
RuleLists ==
    { rl \in SeqsUpTo(RuleSet, Cardinality(RuleSet)) :
        \A a, b \in 1..Len(rl) : a # b => rl[a] # rl[b] }

Subdirectories == {"land"}

RuleInit ==
    /\ LocIdle /\ MainIdle
    /\ candidates = <<>> /\ rules = <<>> /\ subdirectory = None
    /\ rejects = <<>>
    /\ accum = <<>> /\ ci = 0 /\ rj = 0 /\ done = FALSE
    /\ statistics = None /\ apc = "idle" /\ result = None /\ ncalls = 0
    /\ log = <<>>
    /\ candidates_in = <<>> /\ rejects_in = <<>> /\ seen = <<>>
    /\ evaluated = <<>> /\ expected = <<>>

\* entry of apply_rules: accum = [] (the "Examining" line goes to the
\* logger output only and is left out of the state)
CallApplyRulesReset ==
    /\ apc = "idle"
    /\ ncalls < MaxCalls
    /\ candidates' \in CandidateLists
    /\ rules' \in RuleLists
    /\ subdirectory' \in Subdirectories
    /\ accum' = <<>>
    /\ rejects' = <<>>
    /\ ci' = 1
    /\ apc' = "for_filename"
    /\ candidates_in' = candidates'
    /\ rejects_in' = rejects'
    /\ seen' = <<>>
    /\ evaluated' = <<>>
    /\ result' = None
    /\ UNCHANGED <<log, rj, done, statistics, ncalls, expected>>
    /\ UNCHANGED <<locVars, mainVars>>

CallApplyRules ==
    /\ apc = "idle"
    /\ ncalls < MaxCalls
    /\ candidates' \in CandidateLists
    /\ rules' \in RuleLists
    /\ subdirectory' \in Subdirectories
    /\ accum' = <<>>
    /\ ci' = 1
    /\ apc' = "for_filename"
    /\ candidates_in' = candidates'
    /\ rejects_in' = rejects
    /\ seen' = <<>>
    /\ evaluated' = <<>>
    /\ result' = None
    /\ UNCHANGED <<rejects, log, rj, done, statistics, ncalls, expected>>
    /\ UNCHANGED <<locVars, mainVars>>

\* head of "for filename in candidates": done = False and the statistics read
ForFilename ==
    /\ apc = "for_filename"
    /\ ci <= Len(candidates)
    /\ done' = FALSE
    /\ statistics' \in StatTuples
    /\ seen' = Append(seen, statistics')
    /\ evaluated' = <<>>
    /\ rj' = 1
    /\ apc' = "for_rule"
    /\ UNCHANGED <<candidates, rules, subdirectory, rejects, accum, ci, result,
                   ncalls, log, candidates_in, rejects_in, expected>>
    /\ UNCHANGED <<locVars, mainVars>>

\* one iteration of "for rule in rules", or its exhaustion
ForRuleNoBreak ==
    /\ apc = "for_rule"
    /\ IF rj <= Len(rules)
       THEN /\ evaluated' = Append(evaluated, rj)
            /\ rj' = rj + 1
            /\ IF ~RuleHolds(rules[rj], statistics)
               THEN /\ rejects' = Append(rejects, [filename |-> candidates[ci]])
                    /\ expected' = Append(expected, candidates[ci])
                    /\ done' = TRUE
                    /\ UNCHANGED apc
               ELSE UNCHANGED <<rejects, done, apc, expected>>
       ELSE /\ apc' = "if_done"
            /\ UNCHANGED <<rejects, done, rj, evaluated, expected>>
    /\ UNCHANGED <<candidates, rules, subdirectory, accum, ci, statistics, result,
                   ncalls, log, candidates_in, rejects_in, seen>>
    /\ UNCHANGED <<locVars, mainVars>>

ForRule ==
    /\ apc = "for_rule"
    /\ IF rj <= Len(rules)
       THEN /\ evaluated' = Append(evaluated, rj)
            /\ IF ~RuleHolds(rules[rj], statistics)
               THEN /\ rejects' = Append(rejects, [filename |-> candidates[ci]])
                    /\ expected' = Append(expected, candidates[ci])
                    /\ done' = TRUE
                    /\ apc' = "if_done"
                    /\ rj' = rj
               ELSE /\ rj' = rj + 1
                    /\ UNCHANGED <<rejects, done, apc, expected>>
       ELSE /\ apc' = "if_done"
            /\ UNCHANGED <<rejects, done, rj, evaluated, expected>>
    /\ UNCHANGED <<candidates, rules, subdirectory, accum, ci, statistics, result,
                   ncalls, log, candidates_in, rejects_in, seen>>
    /\ UNCHANGED <<locVars, mainVars>>

\* "if done: continue", else accum.append(filename)
IfDoneAlwaysAppend ==
    /\ apc = "if_done"
    /\ accum' = Append(accum, candidates[ci])
    /\ ci' = ci + 1
    /\ apc' = "for_filename"
    /\ UNCHANGED <<candidates, rules, subdirectory, rejects, rj, done, statistics,
                   result, ncalls, log, candidates_in, rejects_in, seen,
                   evaluated, expected>>
    /\ UNCHANGED <<locVars, mainVars>>

IfDone ==
    /\ apc = "if_done"
    /\ accum' = IF done THEN accum ELSE Append(accum, candidates[ci])
    /\ ci' = ci + 1
    /\ apc' = "for_filename"
    /\ UNCHANGED <<candidates, rules, subdirectory, rejects, rj, done, statistics,
                   result, ncalls, log, candidates_in, rejects_in, seen,
                   evaluated, expected>>
    /\ UNCHANGED <<locVars, mainVars>>

\* "return accum"
ReturnAccum ==
    /\ apc = "for_filename"
    /\ ci > Len(candidates)
    /\ result' = accum
    /\ ncalls' = ncalls + 1
    /\ apc' = "idle"
    /\ UNCHANGED <<candidates, rules, subdirectory, rejects, accum, ci, rj, done,
                   statistics, log, candidates_in, rejects_in, seen, evaluated,
                   expected>>
    /\ UNCHANGED <<locVars, mainVars>>

RuleNext == CallApplyRules \/ ForFilename \/ ForRule \/ IfDone \/ ReturnAccum

SpecRules == RuleInit /\ [][RuleNext]_vars

(***************************************************************************)
(* parse_options: the configuration flags set from the command line        *)
(***************************************************************************)
OptionArgs == {"--full", "--assemble", "--generate-tiles", "--generate",
               "--clean", "--sort-tiles", "--remove-land", "--remove-clouds",
               "--remove-all", "--reject", "--manifest", "--annotate"}

\* widths of the scene, grid sizes and tile sizes of a run of main
MainWidths == {3, 4}

MainGridSizes == {0, 2}

Thresholds == {10, 70}

TileSizes == {<<2, 2>>}

Has(argv, options) == argv \cap options # {}

parse_options(cfg, argv, grid_args, land_args, cloud_args) ==
    [cfg EXCEPT
        !.REBUILD = @ \/ Has(argv, {"--full", "--clean"}),
        !.ASSEMBLE_IMAGE = @ \/ Has(argv, {"--full", "--assemble", "--generate"}),
        !.SLICE_IMAGE = @ \/ Has(argv, {"--full", "--generate-tiles", "--generate"}),
        !.REMOVE_LAND = @ \/ Has(argv, {"--full", "--sort-tiles", "--remove-land",
                                        "--remove-all"}),
        !.REMOVE_CLOUDS = @ \/ Has(argv, {"--full", "--sort-tiles", "--remove-clouds",
                                          "--remove-all"}),
        !.REJECT_TILES = @ \/ Has(argv, {"--full", "--sort-tiles", "--reject"}),
        !.BUILD_MANIFEST = @ \/ Has(argv, {"--full", "--manifest"}),
        !.ANNOTATE = @ \/ Has(argv, {"--annotate"}),
        !.GRID_SIZE = IF grid_args = <<>> THEN @ ELSE grid_args[Len(grid_args)],
        !.LAND_THRESHHOLD = IF land_args = <<>> THEN @ ELSE land_args[Len(land_args)],
        !.CLOUD_THRESHHOLD = IF cloud_args = <<>> THEN @
                             ELSE cloud_args[Len(cloud_args)]]

\* the config object before parse_options runs
DefaultConfig(grid, land, cloud) ==
    [REBUILD |-> FALSE, ASSEMBLE_IMAGE |-> FALSE, SLICE_IMAGE |-> FALSE,
     REMOVE_LAND |-> FALSE, REMOVE_CLOUDS |-> FALSE, REJECT_TILES |-> FALSE,
     BUILD_MANIFEST |-> FALSE, ANNOTATE |-> FALSE,
     GRID_SIZE |-> grid, LAND_THRESHHOLD |-> land, CLOUD_THRESHHOLD |-> cloud,
     width |-> None, height |-> None, METADATA |-> None]

(***************************************************************************)
(* build_dict_for_csv(filename, reason, config)                            *)
(***************************************************************************)
\* dict.update: the keys of e override those of d
Update(d, e) ==
    [k \in (DOMAIN d) \cup (DOMAIN e) |-> IF k \in DOMAIN e THEN e[k] ELSE d[k]]

After(filename) == <<"a", "f", "t", "e", "r", "_">> \o filename

Before(filename) == <<"b", "e", "f", "o", "r", "e", "_">> \o filename

\* the coordinate block of a tile, a function of its grid position and size
compute_coordinate_metadata(row, column, width, height) ==
    [tile_x |-> column * width, tile_y |-> row * height]

\* the flat mapping returned by parse_metadata
SceneMetadata == [scene_id |-> "scene"]

build_dict_for_csv(filename, reason, cfg, size) ==
    LET loc == index_to_location(filename, cfg.width, cfg.GRID_SIZE)
    IN  IF ~loc.ok THEN loc
        ELSE [ok |-> TRUE,
              dict |-> Update(Update(
                  [filename1 |-> After(filename),
                   filename2 |-> Before(filename),
                   reason |-> reason,
                   row |-> loc.row,
                   column |-> loc.col,
                   width |-> size[1],
                   height |-> size[2]],
                  compute_coordinate_metadata(loc.row, loc.col, size[1], size[2])),
                  cfg.METADATA)]

(***************************************************************************)
(* main                                                                    *)
(***************************************************************************)
MaxTiles == 2

Stages == <<"parse_options", "get_dimensions", "scratch", "build_output",
            "parse_metadata", "assemble", "slice", "reject", "manifest",
            "annotate", "clean_scratch", "done">>

StageRank(stage) == CHOOSE k \in 1..Len(Stages) : Stages[k] = stage

\* the statement that follows a stage in the body of main
NextStageSwapped(stage) ==
    IF stage = "assemble" THEN "reject"
    ELSE IF stage = "reject" THEN "slice"
    ELSE IF stage = "slice" THEN "manifest"
    ELSE Stages[StageRank(stage) + 1]

NextStage(stage) == Stages[StageRank(stage) + 1]

\* content of scratch/scene left by an earlier run
PriorScenes == { <<>>, TileFiles(2),
                 <<TileName(0), <<"m", "a", "s", "k", ".", "p", "n", "g">>>> }

MainInit ==
    /\ LocIdle /\ RuleIdle
    /\ rejects = <<>> /\ log = <<>>
    /\ config \in {DefaultConfig(g, 10, 70) : g \in MainGridSizes}
    /\ scratch \in BOOLEAN
    /\ scene_files \in (IF scratch THEN PriorScenes ELSE {<<>>})
    /\ calls = <<>>
    /\ retained_tiles = <<>> /\ accepts = <<>> /\ ti = 0
    /\ manifest = <<>> /\ accepted_area = <<>>
    /\ failed = None
    /\ mpc = "parse_options"

\* a collaborator call is recorded as <<name, argument or result>>
NoArg == <<>>

InputFile == <<"B02.jp2">>

PyBool(b) == IF b THEN <<"True">> ELSE <<"False">>

\* an exception leaves main at the given stage after the given calls
Raise(stage, made) ==
    /\ mpc' = "failed"
    /\ failed' = stage
    /\ calls' = calls \o made

\* lines 215-246: locals, parse_options, "Processing start"
ParseOptions ==
    /\ mpc = "parse_options"
    /\ \E argv \in SUBSET OptionArgs,
          grid_args \in {<<>>} \cup {<<g>> : g \in MainGridSizes},
          land_args \in {<<>>} \cup {<<t>> : t \in Thresholds},
          cloud_args \in {<<>>} \cup {<<t>> : t \in Thresholds} :
          config' = parse_options(config, argv, grid_args, land_args, cloud_args)
    /\ retained_tiles' = <<>>
    /\ accepts' = <<>>
    /\ rejects' = <<>>
    /\ log' = Append(log, "Processing start")
    /\ mpc' = NextStage("parse_options")
    /\ UNCHANGED <<scratch, scene_files, calls, ti, manifest, accepted_area, failed>>
    /\ UNCHANGED <<locVars, ruleVars>>

\* line 248: [config.width, config.height] = img.get_dimensions(INPUT_FILE)
GetDimensions ==
    /\ mpc = "get_dimensions"
    /\ \/ /\ \E w \in MainWidths : config' = [config EXCEPT !.width = w, !.height = w]
          /\ calls' = Append(calls, <<"get_dimensions", InputFile>>)
          /\ mpc' = NextStage("get_dimensions")
          /\ UNCHANGED failed
       \/ /\ Raise("get_dimensions", << <<"get_dimensions", InputFile>> >>)
          /\ UNCHANGED config
    /\ UNCHANGED <<scratch, scene_files, retained_tiles, accepts, ti, manifest,
                   accepted_area>>
    /\ UNCHANGED <<locVars, ruleVars, sharedVars>>

\* lines 250-251: if config.REBUILD or not scratch_exists(config): build_scratch
ScratchAlways ==
    /\ mpc = "scratch"
    /\ LET asked == IF config.REBUILD THEN <<>>
                    ELSE << <<"scratch_exists", PyBool(scratch)>> >>
       IN  \/ /\ calls' = calls \o asked \o << <<"build_scratch", NoArg>> >>
              /\ scratch' = TRUE
              /\ scene_files' = <<>>
              /\ mpc' = NextStage("scratch")
              /\ UNCHANGED failed
           \/ /\ Raise("scratch", asked \o << <<"build_scratch", NoArg>> >>)
              /\ UNCHANGED <<scratch, scene_files>>
    /\ UNCHANGED <<config, retained_tiles, accepts, ti, manifest, accepted_area>>
    /\ UNCHANGED <<locVars, ruleVars, sharedVars>>

Scratch ==
    /\ mpc = "scratch"
    /\ LET asked == IF config.REBUILD THEN <<>>
                    ELSE << <<"scratch_exists", PyBool(scratch)>> >>
       IN  IF config.REBUILD \/ ~scratch
           THEN \/ /\ calls' = calls \o asked \o << <<"build_scratch", NoArg>> >>
                   /\ scratch' = TRUE
                   /\ scene_files' = <<>>
                   /\ mpc' = NextStage("scratch")
                   /\ UNCHANGED failed
                \/ /\ Raise("scratch", asked \o << <<"build_scratch", NoArg>> >>)
                   /\ UNCHANGED <<scratch, scene_files>>
           ELSE /\ calls' = calls \o asked
                /\ mpc' = NextStage("scratch")
                /\ UNCHANGED <<scratch, scene_files, failed>>
    /\ UNCHANGED <<config, retained_tiles, accepts, ti, manifest, accepted_area>>
    /\ UNCHANGED <<locVars, ruleVars, sharedVars>>

\* lines 253-254: build_output(config)
BuildOutput ==
    /\ mpc = "build_output"
    /\ log' = Append(log, "Building scene tile output directory")
    /\ \/ /\ calls' = Append(calls, <<"build_output", NoArg>>)
          /\ mpc' = NextStage("build_output")
          /\ UNCHANGED failed
       \/ Raise("build_output", << <<"build_output", NoArg>> >>)
    /\ UNCHANGED <<config, scratch, scene_files, retained_tiles, accepts, ti,
                   manifest, accepted_area, rejects>>
    /\ UNCHANGED <<locVars, ruleVars>>

\* lines 256-262: config.METADATA = parse_metadata(...), the channel paths
ParseMetadata ==
    /\ mpc = "parse_metadata"
    /\ \/ /\ calls' = Append(calls, <<"parse_metadata", NoArg>>)
          /\ config' = [config EXCEPT !.METADATA = SceneMetadata]
          /\ mpc' = NextStage("parse_metadata")
          /\ UNCHANGED failed
       \/ /\ Raise("parse_metadata", << <<"parse_metadata", NoArg>> >>)
          /\ UNCHANGED config
    /\ UNCHANGED <<scratch, scene_files, retained_tiles, accepts, ti, manifest,
                   accepted_area>>
    /\ UNCHANGED <<locVars, ruleVars, sharedVars>>

\* the collaborator calls of the assemble stage, in order
AssembleCalls == << <<"clamp_image", <<"red">>>>, <<"clamp_image", <<"green">>>>,
                    <<"clamp_image", <<"blue">>>>, <<"assemble_image", NoArg>> >>

\* lines 264-278: clamp the three channels and assemble, or skip
Assemble ==
    /\ mpc = "assemble"
    /\ IF config.ASSEMBLE_IMAGE
       THEN /\ log' = Append(log, "Processing source data to remove negative pixels")
            /\ \/ /\ calls' = calls \o AssembleCalls
                  /\ mpc' = NextStage("assemble")
                  /\ UNCHANGED failed
               \/ \E k \in 1..Len(AssembleCalls) :
                      Raise("assemble", SubSeq(AssembleCalls, 1, k))
       ELSE /\ log' = Append(log, "Skipping scene generation")
            /\ mpc' = NextStage("assemble")
            /\ UNCHANGED <<calls, failed>>
    /\ UNCHANGED <<config, scratch, scene_files, retained_tiles, accepts, ti,
                   manifest, accepted_area, rejects>>
    /\ UNCHANGED <<locVars, ruleVars>>

\* lines 280-287: img.prepare_tiles(config), or skip
SliceSilent ==
    /\ mpc = "slice"
    /\ IF config.SLICE_IMAGE
       THEN /\ log' = Append(log, "Generating scene tiles")
            /\ \/ /\ calls' = Append(calls, <<"prepare_tiles", NoArg>>)
                  /\ \E n \in 0..MaxTiles : scene_files' = TileFiles(n)
                  /\ mpc' = NextStage("slice")
                  /\ UNCHANGED failed
               \/ /\ Raise("slice", << <<"prepare_tiles", NoArg>> >>)
                  /\ UNCHANGED scene_files
       ELSE /\ mpc' = NextStage("slice")
            /\ UNCHANGED <<log, calls, failed, scene_files>>
    /\ UNCHANGED <<config, scratch, retained_tiles, accepts, ti, manifest,
                   accepted_area, rejects>>
    /\ UNCHANGED <<locVars, ruleVars>>

Slice ==
    /\ mpc = "slice"
    /\ IF config.SLICE_IMAGE
       THEN /\ log' = Append(log, "Generating scene tiles")
            /\ \/ /\ calls' = Append(calls, <<"prepare_tiles", NoArg>>)
                  /\ \E n \in 0..MaxTiles : scene_files' = TileFiles(n)
                  /\ mpc' = NextStage("slice")
                  /\ UNCHANGED failed
               \/ /\ Raise("slice", << <<"prepare_tiles", NoArg>> >>)
                  /\ UNCHANGED scene_files
       ELSE /\ log' = Append(log, "Skipping scene tile generation")
            /\ mpc' = NextStage("slice")
            /\ UNCHANGED <<calls, failed, scene_files>>
    /\ UNCHANGED <<config, scratch, retained_tiles, accepts, ti, manifest,
                   accepted_area, rejects>>
    /\ UNCHANGED <<locVars, ruleVars>>

\* lines 289-291: "Copying all tiles", the listing of scratch/scene
Reject ==
    /\ mpc = "reject"
    /\ IF config.REJECT_TILES
       THEN /\ log' = Append(log, "Copying all tiles")
            /\ \/ /\ calls' = Append(calls, <<"get_files_by_extension", <<"scene">>>>)
                  /\ retained_tiles' = scene_files
                  /\ ti' = 1
                  /\ mpc' = IF scene_files = <<>> THEN NextStage("reject")
                            ELSE "accept_tile"
                  /\ UNCHANGED failed
               \/ /\ Raise("reject", << <<"get_files_by_extension", <<"scene">>>> >>)
                  /\ UNCHANGED <<retained_tiles, ti>>
       ELSE /\ mpc' = NextStage("reject")
            /\ UNCHANGED <<log, calls, failed, retained_tiles, ti>>
    /\ UNCHANGED <<config, scratch, scene_files, accepts, manifest, accepted_area,
                   rejects>>
    /\ UNCHANGED <<locVars, ruleVars>>

\* line 293: accept_tile(filename, config)
AcceptTileByRules ==
    /\ mpc = "accept_tile"
    /\ IF config.REMOVE_LAND \/ config.REMOVE_CLOUDS
       THEN /\ calls' = calls \o << <<"apply_rules", retained_tiles[ti]>>,
                                   <<"reject_tile", retained_tiles[ti]>> >>
            /\ rejects' = Append(rejects, retained_tiles[ti])
            /\ ti' = ti + 1
            /\ mpc' = IF ti + 1 > Len(retained_tiles) THEN NextStage("reject")
                      ELSE "accept_tile"
            /\ UNCHANGED <<accepted_area, failed>>
       ELSE /\ calls' = Append(calls, <<"accept_tile", retained_tiles[ti]>>)
            /\ accepted_area' = Append(accepted_area, retained_tiles[ti])
            /\ mpc' = "build_dict"
            /\ UNCHANGED <<failed, rejects, ti>>
    /\ UNCHANGED <<config, scratch, scene_files, retained_tiles, accepts,
                   manifest, log>>
    /\ UNCHANGED <<locVars, ruleVars>>

AcceptTileSwallow ==
    /\ mpc = "accept_tile"
    /\ \/ /\ calls' = Append(calls, <<"accept_tile", retained_tiles[ti]>>)
          /\ accepted_area' = Append(accepted_area, retained_tiles[ti])
          /\ mpc' = "build_dict"
          /\ UNCHANGED <<failed, ti>>
       \/ /\ calls' = Append(calls, <<"accept_tile", retained_tiles[ti]>>)
          /\ failed' = "reject"
          /\ ti' = ti + 1
          /\ mpc' = IF ti + 1 > Len(retained_tiles) THEN NextStage("reject")
                    ELSE "accept_tile"
          /\ UNCHANGED accepted_area
    /\ UNCHANGED <<config, scratch, scene_files, retained_tiles, accepts,
                   manifest>>
    /\ UNCHANGED <<locVars, ruleVars, sharedVars>>

AcceptTile ==
    /\ mpc = "accept_tile"
    /\ \/ /\ calls' = Append(calls, <<"accept_tile", retained_tiles[ti]>>)
          /\ accepted_area' = Append(accepted_area, retained_tiles[ti])
          /\ mpc' = "build_dict"
          /\ UNCHANGED failed
       \/ /\ Raise("reject", << <<"accept_tile", retained_tiles[ti]>> >>)
          /\ UNCHANGED accepted_area
    /\ UNCHANGED <<config, scratch, scene_files, retained_tiles, accepts, ti,
                   manifest>>
    /\ UNCHANGED <<locVars, ruleVars, sharedVars>>

\* the collaborator calls of build_dict_for_csv for one tile, in order
DictCalls(filename) == << <<"get_dimensions", filename>>,
                          <<"compute_coordinate_metadata", filename>> >>

\* line 294: accepts.append(build_dict_for_csv(filename, "Accepted", config))
AppendDictSkipErrors ==
    /\ mpc = "build_dict"
    /\ LET filename == retained_tiles[ti]
           advance  == /\ ti' = ti + 1
                       /\ mpc' = IF ti + 1 > Len(retained_tiles)
                                 THEN NextStage("reject") ELSE "accept_tile"
       IN  \/ \E size \in TileSizes :
                LET built == build_dict_for_csv(filename, "Accepted", config, size)
                IN  IF built.ok
                    THEN /\ calls' = calls \o DictCalls(filename)
                         /\ accepts' = Append(accepts, built.dict)
                         /\ advance
                         /\ UNCHANGED failed
                    ELSE /\ calls' = Append(calls, DictCalls(filename)[1])
                         /\ advance
                         /\ UNCHANGED <<accepts, failed>>
           \/ /\ \E k \in 1..2 : Raise("reject", SubSeq(DictCalls(filename), 1, k))
              /\ UNCHANGED <<accepts, ti>>
    /\ UNCHANGED <<config, scratch, scene_files, retained_tiles, manifest,
                   accepted_area>>
    /\ UNCHANGED <<locVars, ruleVars, sharedVars>>

AppendDict ==
    /\ mpc = "build_dict"
    /\ LET filename == retained_tiles[ti]
       IN  \/ \E size \in TileSizes :
                LET built == build_dict_for_csv(filename, "Accepted", config, size)
                IN  IF built.ok
                    THEN /\ calls' = calls \o DictCalls(filename)
                         /\ accepts' = Append(accepts, built.dict)
                         /\ ti' = ti + 1
                         /\ mpc' = IF ti + 1 > Len(retained_tiles)
                                   THEN NextStage("reject") ELSE "accept_tile"
                         /\ UNCHANGED failed
                    ELSE /\ Raise("reject", << DictCalls(filename)[1] >>)
                         /\ UNCHANGED <<accepts, ti>>
           \/ /\ \E k \in 1..2 : Raise("reject", SubSeq(DictCalls(filename), 1, k))
              /\ UNCHANGED <<accepts, ti>>
    /\ UNCHANGED <<config, scratch, scene_files, retained_tiles, manifest,
                   accepted_area>>
    /\ UNCHANGED <<locVars, ruleVars, sharedVars>>

\* lines 296-300: write_manifest(path, accepts); manifest holds the record
\* lists of the writes that completed
WriteManifest ==
    /\ mpc = "manifest"
    /\ IF config.BUILD_MANIFEST
       THEN /\ log' = Append(log, "Writing manifest")
            /\ \/ /\ calls' = Append(calls, <<"write_manifest", <<"manifest.csv">>>>)
                  /\ manifest' = Append(manifest, accepts)
                  /\ mpc' = NextStage("manifest")
                  /\ UNCHANGED failed
               \/ /\ Raise("manifest", << <<"write_manifest", <<"manifest.csv">>>> >>)
                  /\ UNCHANGED manifest
       ELSE /\ mpc' = NextStage("manifest")
            /\ UNCHANGED <<log, calls, failed, manifest>>
    /\ UNCHANGED <<config, scratch, scene_files, retained_tiles, accepts, ti,
                   accepted_area, rejects>>
    /\ UNCHANGED <<locVars, ruleVars>>

\* lines 302-304: img.label_all(config)
Annotate ==
    /\ mpc = "annotate"
    /\ IF config.ANNOTATE
       THEN /\ log' = Append(log, "Annotating with label")
            /\ \/ /\ calls' = Append(calls, <<"label_all", NoArg>>)
                  /\ mpc' = NextStage("annotate")
                  /\ UNCHANGED failed
               \/ Raise("annotate", << <<"label_all", NoArg>> >>)
       ELSE /\ mpc' = NextStage("annotate")
            /\ UNCHANGED <<log, calls, failed>>
    /\ UNCHANGED <<config, scratch, scene_files, retained_tiles, accepts, ti,
                   manifest, accepted_area, rejects>>
    /\ UNCHANGED <<locVars, ruleVars>>

\* lines 306-308: maybe_clean_scratch(config), "Processing finished"
CleanScratch ==
    /\ mpc = "clean_scratch"
    /\ \/ /\ calls' = Append(calls, <<"maybe_clean_scratch", NoArg>>)
          /\ \/ UNCHANGED <<scratch, scene_files>>
             \/ scratch' = FALSE /\ scene_files' = <<>>
          /\ log' = Append(log, "Processing finished")
          /\ mpc' = NextStage("clean_scratch")
          /\ UNCHANGED failed
       \/ /\ Raise("clean_scratch", << <<"maybe_clean_scratch", NoArg>> >>)
          /\ UNCHANGED <<scratch, scene_files, log>>
    /\ UNCHANGED <<config, retained_tiles, accepts, ti, manifest, accepted_area,
                   rejects>>
    /\ UNCHANGED <<locVars, ruleVars>>

MainNext ==
    \/ ParseOptions \/ GetDimensions \/ Scratch \/ BuildOutput \/ ParseMetadata
    \/ Assemble \/ Slice \/ Reject \/ AcceptTile \/ AppendDict
    \/ WriteManifest \/ Annotate \/ CleanScratch

SpecMain == MainInit /\ [][MainNext]_vars

(***************************************************************************)
(* Properties of apply_rules                                               *)
(***************************************************************************)
PassesAll(stats, rl) == \A r \in 1..Len(rl) : RuleHolds(rl[r], stats)

FirstFailing(stats, rl) ==
    CHOOSE r \in 1..Len(rl) :
        /\ ~RuleHolds(rl[r], stats)
        /\ \A m \in 1..(r - 1) : RuleHolds(rl[m], stats)

Upto(n) == [k \in 1..n |-> k]

IsPrefix(s, t) == Len(s) <= Len(t) /\ SubSeq(t, 1, Len(s)) = s

Appended == SubSeq(rejects, Len(rejects_in) + 1, Len(rejects))

\* C1 as stated: a tile is accepted iff every rule returns true, and a
\* rejected tile is recorded with the identity of the first failing rule as
\* its rejection reason.
C1_ReasonIsFirstFailingRule ==
    (apc = "if_done") =>
        /\ (~done) <=> PassesAll(statistics, rules)
        /\ done =>
              /\ "reason" \in DOMAIN rejects[Len(rejects)]
              /\ rejects[Len(rejects)].reason = rules[FirstFailing(statistics, rules)].name

\* C1 amended: a tile is accepted iff every rule returns true; otherwise the
\* rule loop stops at the first failing rule in list order (no later rule is
\* evaluated) and only the tile's filename is appended to rejects, without
\* any rule identity.
C1_FirstFailureStopsLoop ==
    (apc = "if_done") =>
        /\ (~done) <=> PassesAll(statistics, rules)
        /\ done =>
              /\ evaluated = Upto(FirstFailing(statistics, rules))
              /\ rejects = Append(SubSeq(rejects, 1, Len(rejects) - 1),
                                  [filename |-> candidates[ci]])
              /\ DOMAIN rejects[Len(rejects)] = {"filename"}
              /\ Len(Appended) = Cardinality({k \in 1..ci : ~PassesAll(seen[k], rules)})
        /\ (~done) =>
              /\ evaluated = Upto(Len(rules))
              /\ Len(Appended) = Cardinality({k \in 1..ci : ~PassesAll(seen[k], rules)})

C1_Witness ==
    /\ apc = "if_done" /\ done
    /\ Len(rules) = 2
    /\ ~RuleHolds(rules[1], statistics)
    /\ ~RuleHolds(rules[2], statistics)
    /\ rules[1] # rules[2]
    /\ evaluated = <<1>>

\* C2: a call returns exactly the candidates that pass every rule, in input
\* order, appends exactly the failing candidates to rejects, and routes
\* every candidate to one of the two and to no more than one.
C2_StablePartition ==
    (apc = "idle" /\ ncalls > 0) =>
        LET passing == {k \in 1..Len(candidates_in) : PassesAll(seen[k], rules)}
            failing == (1..Len(candidates_in)) \ passing
        IN  /\ Len(seen) = Len(candidates_in)
            /\ result = Pick(candidates_in, passing)
            /\ Appended = [k \in 1..Cardinality(failing) |->
                              [filename |-> Pick(candidates_in, failing)[k]]]
            /\ Len(result) + Len(Appended) = Len(candidates_in)

C2_Witness ==
    /\ apc = "idle" /\ ncalls > 0
    /\ Len(candidates_in) = 3
    /\ candidates_in[1] # candidates_in[2]
    /\ PassesAll(seen[1], rules)
    /\ ~PassesAll(seen[2], rules)
    /\ PassesAll(seen[3], rules)
    /\ result = <<candidates_in[1], candidates_in[3]>>
    /\ Appended = <<[filename |-> candidates_in[2]]>>

\* C10: every step of every call keeps the entries already in rejects as a
\* prefix and leaves the candidates list as it was passed; rejects is
\* always the concatenation, in call and input order, of the candidates
\* rejected so far.
C10_RejectsAppendOnly ==
    [][ /\ IsPrefix(rejects, rejects')
        /\ IsPrefix(rejects_in', rejects')
        /\ (apc # "idle" => candidates' = candidates_in)
        /\ rejects' = [k \in 1..Len(expected') |-> [filename |-> expected'[k]]]
      ]_vars

C10_Witness ==
    /\ apc = "idle" /\ ncalls = 2
    /\ rejects_in # <<>>
    /\ Len(rejects) > Len(rejects_in)
    /\ candidates = candidates_in

(***************************************************************************)
(* Properties of main                                                      *)
(***************************************************************************)
CountCalls(name) == Cardinality({k \in DOMAIN calls : calls[k][1] = name})

Called(name) == \E k \in DOMAIN calls : calls[k][1] = name

\* the stage of main that makes a given collaborator call
CallStage(call) ==
    IF call[1] = "get_dimensions" /\ call[2] = InputFile THEN "get_dimensions"
    ELSE IF call[1] \in {"scratch_exists", "build_scratch"} THEN "scratch"
    ELSE IF call[1] = "build_output" THEN "build_output"
    ELSE IF call[1] = "parse_metadata" THEN "parse_metadata"
    ELSE IF call[1] \in {"clamp_image", "assemble_image"} THEN "assemble"
    ELSE IF call[1] = "prepare_tiles" THEN "slice"
    ELSE IF call[1] = "write_manifest" THEN "manifest"
    ELSE IF call[1] = "label_all" THEN "annotate"
    ELSE IF call[1] = "maybe_clean_scratch" THEN "clean_scratch"
    ELSE "reject"

PastRejectStage == mpc \in {"manifest", "annotate", "clean_scratch", "done"}

ScratchReused ==
    /\ ~config.REBUILD
    /\ \E k \in DOMAIN calls : calls[k] = <<"scratch_exists", PyBool(TRUE)>>

\* C4: when a manifest has been written, the records handed to the writer
\* are one per tile copied to the accepted area, in tile-listing order, so
\* their number equals the number of accepted tiles, for every flag setting.
C4_ManifestRowsEqualAccepted ==
    (manifest # <<>>) =>
        /\ Len(manifest) = 1
        /\ Len(manifest[1]) = Len(accepted_area)
        /\ \A k \in DOMAIN accepted_area :
              /\ manifest[1][k].filename1 = After(accepted_area[k])
              /\ manifest[1][k].filename2 = Before(accepted_area[k])
        /\ accepted_area = (IF config.REJECT_TILES THEN retained_tiles ELSE <<>>)

C4_Witness ==
    /\ manifest # <<>>
    /\ Len(manifest[1]) = 2
    /\ Len(accepted_area) = 2
    /\ accepted_area[1] # accepted_area[2]

\* C5 as stated: with an existing scratch directory and rebuild false, the
\* run makes no call of prepare_tiles, whatever the other flags are.
C5_NoSlicingOnScratchReuse ==
    ScratchReused => CountCalls("prepare_tiles") = 0

\* C5 amended: with an existing scratch directory and rebuild false, the run
\* makes no call of build_scratch; prepare_tiles is called once exactly when
\* the slice flag is enabled and the run reaches the slice stage.
C5_ScratchReuseSkipsBuildOnly ==
    ScratchReused =>
        /\ CountCalls("build_scratch") = 0
        /\ CountCalls("prepare_tiles") <= 1
        /\ Called("prepare_tiles") => config.SLICE_IMAGE
        /\ (config.SLICE_IMAGE /\ mpc \in {"reject", "accept_tile", "build_dict",
                                         "manifest", "annotate", "clean_scratch",
                                         "done"})
              => CountCalls("prepare_tiles") = 1
        /\ (~config.SLICE_IMAGE) => CountCalls("prepare_tiles") = 0

C5_Witness ==
    /\ ScratchReused
    /\ config.SLICE_IMAGE
    /\ CountCalls("prepare_tiles") = 1
    /\ CountCalls("build_scratch") = 0
    /\ mpc = "done"

PreManifestStages == {"get_dimensions", "scratch", "build_output",
                      "parse_metadata", "assemble", "slice", "reject"}

\* C6 as stated: no state has a manifest written and the run failed.
C6_NoManifestOnFailure ==
    ~(failed # None /\ manifest # <<>>)

\* C6 amended: a failure of a stage that precedes the manifest write
\* (dimension read, scratch build, output build, metadata parse,
\* clamp/assemble, slice, tile accept or record build) ends the run with no
\* manifest written and no call of the writer; a failure of annotate or of
\* the scratch cleanup ends the run after the manifest of an enabled
\* manifest stage has been written.
C6_FailureBeforeManifestWritesNone ==
    [][ /\ failed = None
        /\ (failed' # None) => mpc' = "failed"
        /\ (failed' \in PreManifestStages) =>
              (manifest' = <<>> /\ ~Called("write_manifest")')
        /\ (failed' \in {"annotate", "clean_scratch"} /\ config'.BUILD_MANIFEST) =>
              manifest' # <<>>
      ]_vars

C6_Witness ==
    /\ mpc = "failed"
    /\ failed = "reject"
    /\ config.BUILD_MANIFEST
    /\ accepted_area # <<>>
    /\ manifest = <<>>

SkipMessages == {"Skipping scene generation", "Skipping scene tile generation",
                 "Skipping tile sorting", "Skipping manifest", "Skipping annotation"}

DisabledAt(stage) ==
    /\ mpc = stage
    /\ \/ stage = "assemble" /\ ~config.ASSEMBLE_IMAGE
       \/ stage = "slice" /\ ~config.SLICE_IMAGE
       \/ stage = "reject" /\ ~config.REJECT_TILES
       \/ stage = "manifest" /\ ~config.BUILD_MANIFEST
       \/ stage = "annotate" /\ ~config.ANNOTATE

StageAfter(stage) ==
    IF stage = "assemble" THEN "slice"
    ELSE IF stage = "slice" THEN "reject"
    ELSE IF stage = "reject" THEN "manifest"
    ELSE IF stage = "manifest" THEN "annotate"
    ELSE "clean_scratch"

GatedStages == {"assemble", "slice", "reject", "manifest", "annotate"}

\* C7 as stated: a disabled stage makes no collaborator call, the run
\* advances to the next stage, and a skipped event is logged for the stage.
C7_DisabledStageLogsSkipped ==
    [][ \A stage \in GatedStages :
            DisabledAt(stage) =>
                /\ calls' = calls
                /\ mpc' = StageAfter(stage)
                /\ Len(log') = Len(log) + 1
                /\ log'[Len(log')] \in SkipMessages
      ]_vars

\* C7 amended: a disabled stage makes no collaborator call and the run
\* advances to the next stage; a skipped event is logged for the assemble
\* and slice stages only, while a disabled accept/reject, manifest or
\* annotate stage logs nothing.
C7_DisabledStageSkipsCalls ==
    [][ \A stage \in GatedStages :
            DisabledAt(stage) =>
                /\ calls' = calls
                /\ mpc' = StageAfter(stage)
                /\ failed' = None
                /\ <<accepts, accepted_area, manifest, scene_files>>' =
                       <<accepts, accepted_area, manifest, scene_files>>
                /\ log' = IF stage = "assemble"
                            THEN Append(log, "Skipping scene generation")
                          ELSE IF stage = "slice"
                            THEN Append(log, "Skipping scene tile generation")
                          ELSE log
      ]_vars

C7_Witness ==
    /\ mpc = "done"
    /\ ~config.ASSEMBLE_IMAGE /\ ~config.SLICE_IMAGE /\ ~config.REJECT_TILES
    /\ ~config.BUILD_MANIFEST /\ ~config.ANNOTATE
    /\ log = <<"Processing start", "Building scene tile output directory",
               "Skipping scene generation", "Skipping scene tile generation",
               "Processing finished">>

\* C8: the collaborator calls of a run are made in stage order (scratch
\* setup, clamp/assemble, slice, accept/reject, manifest, annotate): no
\* slicing call precedes the end of assembly, no tile is accepted or
\* recorded before slicing is over, and the manifest is written only after
\* every listed tile has been accepted and recorded.
C8_StagesInOrder ==
    /\ \A i, j \in DOMAIN calls :
          i < j => StageRank(CallStage(calls[i])) <= StageRank(CallStage(calls[j]))
    /\ (Called("prepare_tiles") /\ config.ASSEMBLE_IMAGE) =>
          \A k \in DOMAIN AssembleCalls :
              \E i \in DOMAIN calls : calls[i] = AssembleCalls[k]
    /\ (Called("write_manifest") /\ config.REJECT_TILES) =>
          /\ Called("get_files_by_extension")
          /\ accepted_area = retained_tiles
          /\ Len(accepts) = Len(retained_tiles)
    /\ (Called("label_all") /\ config.BUILD_MANIFEST) => manifest # <<>>

C8_Witness ==
    /\ mpc = "done"
    /\ config.ASSEMBLE_IMAGE /\ config.SLICE_IMAGE /\ config.REJECT_TILES
    /\ config.BUILD_MANIFEST /\ config.ANNOTATE
    /\ Len(accepts) = 2
    /\ CountCalls("accept_tile") = 2
    /\ Called("build_scratch") /\ Called("label_all")

====
